---- MODULE Spec2Model ----
(***************************************************************************)
(* Model of hbbft_config_generator/src/keygen_history_helpers.rs:          *)
(*   generate_keygens      - the three-round in-process DKG handshake      *)
(*   key_sync_history_data - the transcript encoder                        *)
(* The DKG engine (hbbft::sync_key_gen) is an external crate: every call   *)
(* into it is a nondeterministic choice over the results its signature     *)
(* allows.                                                                 *)
(***************************************************************************)
EXTENDS Integers, Sequences, FiniteSets, TLC

\* ------------------------------------------------------------------ bounds
\* Public keys are 1..MaxValidators; a validator set is a non-empty subset.
MaxValidators == 2
\* At most MaxFaults engine calls of one run return something else than the
\* honest result.
MaxFaults == 2
\* Longest Parts list / outcomes list handed directly to the encoder.
MaxLen == 2
\* Seeds of the supplied rng are 0..MaxSeed.
MaxSeed == 1
\* Initial states of the system's entropy source are 0..MaxEntropy.
MaxEntropy == 1
\* Account keys of the state trie are 1..MaxAccounts.
MaxAccounts == 2
\* Keys of the old account-bloom column are 0..MaxOldBloom.
MaxOldBloom == 1

Universe == 1..MaxValidators

\* ----------------------------------------------------------------- helpers
Min(S) == CHOOSE x \in S : \A y \in S : x <= y

RECURSIVE SortedSeq(_)
\* The iteration order of a BTreeMap/BTreeSet over the keys S: ascending.
SortedSeq(S) == IF S = {} THEN <<>> ELSE <<Min(S)>> \o SortedSeq(S \ {Min(S)})

RECURSIVE SumLen(_)
SumLen(s) == IF s = <<>> THEN 0 ELSE Len(Head(s)) + SumLen(Tail(s))

\* Option<T> is a sequence of length at most one.
None == <<>>
Some(x) == <<x>>

\* ------------------------------------------------------- external: ethkey
\* public_to_address: a one-way hash of the public key, injective on the keys
\* used here and not order preserving.
public_to_address(p) == (p * 7) % 11

\* ------------------------------------------------------ external: bincode
\* bincode::serialize of Part(commitment, rows) and Ack(index, values): each
\* vector is written as its length followed by its elements.
bincode_serialize_part_NoRowCount(part) ==
    <<Len(part.commit)>> \o part.commit \o part.rows

bincode_serialize_part(part) ==
    <<Len(part.commit)>> \o part.commit \o <<Len(part.rows)>> \o part.rows

bincode_serialize_ack(ack) ==
    <<ack.idx, Len(ack.values)>> \o ack.values

\* bincode::deserialize::<Part>: reads the two vectors back; Err (None here)
\* when the bytes end early or are not used up.
bincode_deserialize_part(bytes) ==
    IF Len(bytes) < 1 THEN None
    ELSE LET c == bytes[1]
         IN  IF Len(bytes) < c + 2 THEN None
             ELSE LET r == bytes[c + 2]
                  IN  IF Len(bytes) # c + r + 2 THEN None
                      ELSE Some([commit |-> SubSeq(bytes, 2, c + 1),
                                 rows |-> SubSeq(bytes, c + 3, c + r + 2)])

\* bincode::deserialize::<Ack>.
bincode_deserialize_ack(bytes) ==
    IF Len(bytes) < 2 THEN None
    ELSE IF Len(bytes) # bytes[2] + 2 THEN None
    ELSE Some([idx |-> bytes[1], values |-> SubSeq(bytes, 3, Len(bytes))])

\* -------------------------------------------------------- external: hbbft
\* PartOutcome::Valid(Option<Ack>) | PartOutcome::Invalid(fault)
Valid(opt) == [tag |-> "Valid", ack |-> opt]
Invalid == [tag |-> "Invalid", ack |-> None]

\* Results of SyncKeyGen::new: Err(_), Ok((gen, None)), Ok((gen, Some(part)))
NewResults == {"Err", "NoPart", "Part"}
\* Results of handle_part: Err(_), Ok(Invalid), Ok(Valid(None)), Ok(Valid(Some))
PartResults == {"Err", "Invalid", "ValidNone", "ValidSome"}
\* Results of handle_ack: Err(_), Ok(AckOutcome::Invalid), Ok(AckOutcome::Valid)
AckResults == {"Err", "Invalid", "Valid"}

VARIABLES
    key_pairs,      \* generate_keygens argument: the validator set (its keys)
    t,              \* generate_keygens argument: the threshold
    honest,         \* TRUE: the engine returns only honest results in this run
    faults,         \* number of non-honest engine results so far
    pc,             \* position of the program
    panic_line,     \* source line of the panic, 0 while none
    sync_keygen,    \* Vec<SyncKeyGen>: generators constructed so far
    parts,          \* Vec<(Public, Part)>
    inner,          \* the inner Vec a flat_map closure is collecting
    acks,           \* Vec<(Public, PartOutcome)>
    ack_outcomes,   \* Vec<AckOutcome>
    ck,             \* number of ack outcomes the final loop has checked
    log,            \* history: the engine calls made, in order
    in_parts,       \* key_sync_history_data argument parts
    in_acks,        \* key_sync_history_data argument acks
    enc,            \* what key_sync_history_data left: data, counters, output
    rnd,            \* the randomness: the supplied rng and the system's entropy
    prev,           \* the Parts and outcomes of an earlier run with the same
                    \* arguments and seed, None while there is none
    enodes,         \* the argument of enodes_to_pub_keys
    pub_keys,       \* what enodes_to_pub_keys returned, None before the call
    db,             \* the database rebuild_accounts_bloom opens: best block
                    \* hash, headers, state tries, account-bloom column
    fs,             \* the file at the backup path: None, or Some(content)
    bl              \* rebuild_accounts_bloom: arguments, position, locals, result

enodeVars == <<enodes, pub_keys>>
bloomVars == <<db, fs, bl>>
\* The variables of the other functions.
otherVars == <<enodeVars, bloomVars>>
\* The variables generate_keygens and the encoder never touch.
restVars == <<prev, otherVars>>

vars == <<key_pairs, t, honest, faults, pc, panic_line, sync_keygen, parts,
          inner, acks, ack_outcomes, ck, log, in_parts, in_acks, enc, rnd,
          restVars>>

genVars == <<key_pairs, t, honest, faults, sync_keygen, parts, inner, acks,
             ack_outcomes, ck, log, rnd>>

N == Cardinality(key_pairs)
Keys == SortedSeq(key_pairs)

\* enodes_to_pub_keys has not been called.
EnodeIdle ==
    /\ enodes = [x \in {} |-> 0]
    /\ pub_keys = None

\* rebuild_accounts_bloom is not running.
BloomIdle ==
    /\ db = [best |-> None, headers |-> [x \in {} |-> 0],
             tries |-> [x \in {} |-> 0], bloom |-> [x \in {} |-> 0]]
    /\ fs = None
    /\ bl = [pc |-> "idle"]

\* ---------------------------------------------------------- randomness
\* rnd.seed: the seed of the rng handed to generate_keygens; rnd.rng: that
\* rng's state (the number of values drawn is rnd.rng - rnd.seed); rnd.os:
\* the state of the system entropy source, which no argument controls;
\* rnd.os_draws: the number of values drawn from it.
RndStart(seed, os) == [seed |-> seed, rng |-> seed, os |-> os, os_draws |-> 0]

\* ethkey::crypto::ecies::encrypt: the ciphertext depends on the recipient,
\* the message and an ephemeral key drawn from the system's entropy e.
ecies_encrypt(public, msg, e) == public + msg + e

\* Lines 17-23: KeyPairWrapper::encrypt. The rng argument (_rng, the state r
\* here) is not used: ecies::encrypt takes no rng and draws its own entropy.
encrypt(public, msg, r, e) == ecies_encrypt(public, msg, e)

\* The Part an honest SyncKeyGen::new builds for validator id among the
\* validators keys with threshold t: a commitment to a polynomial drawn from
\* the rng, of a size that grows with t, and one row per validator, encrypted
\* to that validator through KeyPairWrapper::encrypt.
EnginePart(id, keys, threshold) ==
    [commit |-> [k \in 1..(threshold + 1) |-> id + rnd.rng],
     rows |-> [k \in 1..Len(keys) |->
                  encrypt(keys[k], id + rnd.rng, rnd.rng + 1, rnd.os + k - 1)]]

\* SyncKeyGen::new drew the polynomial from the rng and made one encrypt
\* call per validator.
RndAfterNew(n) ==
    [rnd EXCEPT !.rng = @ + 1, !.os = @ + n, !.os_draws = @ + n]

\* The Ack an honest handle_part on generator id builds for the Part of the
\* sender with (0-based) index idx: one value per validator, encrypted to
\* that validator through KeyPairWrapper::encrypt.
EngineAck(id, idx, keys) ==
    [idx |-> idx,
     values |-> [k \in 1..Len(keys) |->
                    encrypt(keys[k], id + idx, rnd.rng, rnd.os + k - 1)]]

\* handle_part made one encrypt call per validator and drew nothing else.
RndAfterAck(n) ==
    [rnd EXCEPT !.os = @ + n, !.os_draws = @ + n]

\* The engine may deviate from the honest result of a call.
MayFault == ~honest /\ faults < MaxFaults

\* ------------------------------------------------------------ the encoder
\* BTreeMap::insert / entry: the map m with key k bound to v.
MapPut(m, k, v) ==
    [x \in (DOMAIN m) \cup {k} |-> IF x = k THEN v ELSE m[x]]

EmptyMap == [x \in {} |-> 0]

\* Lines 119-127: the empty document and the zeroed counters.
EncStart ==
    [parts |-> EmptyMap, acks |-> EmptyMap,
     parts_total_bytes |-> 0, num_parts |-> 0,
     acks_total_bytes |-> 0, num_acks |-> 0, panic |-> 0]

PartStep_KeyByPublic(st, p) ==
    LET serialized == bincode_serialize_part(p[2])
    IN  [st EXCEPT !.parts_total_bytes = @ + Len(serialized),
                   !.num_parts = @ + 1,
                   !.parts = MapPut(@, p[1], serialized)]

PartStep_AssignTotal(st, p) ==
    LET serialized == bincode_serialize_part(p[2])
    IN  [st EXCEPT !.parts_total_bytes = Len(serialized),
                   !.num_parts = @ + 1,
                   !.parts = MapPut(@, public_to_address(p[1]), serialized)]

\* Lines 129-134: one iteration of the loop over the Parts.
PartStep(st, p) ==
    LET serialized == bincode_serialize_part(p[2])
    IN  [st EXCEPT !.parts_total_bytes = @ + Len(serialized),
                   !.num_parts = @ + 1,
                   !.parts = MapPut(@, public_to_address(p[1]), serialized)]

AckStep_SkipMissingAck(st, a) ==
    IF st.panic # 0 THEN st
    ELSE IF a[2].tag = "Valid"
    THEN IF a[2].ack # None
         THEN LET addr == public_to_address(a[1])
                  v == IF addr \in DOMAIN st.acks THEN st.acks[addr] ELSE <<>>
                  ack_serialized == bincode_serialize_ack(a[2].ack[1])
              IN  [st EXCEPT !.acks_total_bytes = @ + Len(ack_serialized),
                             !.num_acks = @ + 1,
                             !.acks = MapPut(@, addr, Append(v, ack_serialized))]
         ELSE st
    ELSE [st EXCEPT !.panic = 148]

AckStep_Prepend(st, a) ==
    IF st.panic # 0 THEN st
    ELSE IF a[2].tag = "Valid"
    THEN IF a[2].ack # None
         THEN LET addr == public_to_address(a[1])
                  v == IF addr \in DOMAIN st.acks THEN st.acks[addr] ELSE <<>>
                  ack_serialized == bincode_serialize_ack(a[2].ack[1])
              IN  [st EXCEPT !.acks_total_bytes = @ + Len(ack_serialized),
                             !.num_acks = @ + 1,
                             !.acks = MapPut(@, addr, <<ack_serialized>> \o v)]
         ELSE [st EXCEPT !.panic = 145]
    ELSE [st EXCEPT !.panic = 148]

\* Lines 135-150: one iteration of the loop over the outcomes; a panic ends
\* the call, so nothing after it is executed.
AckStep(st, a) ==
    IF st.panic # 0 THEN st
    ELSE IF a[2].tag = "Valid"
    THEN IF a[2].ack # None
         THEN LET addr == public_to_address(a[1])
                  v == IF addr \in DOMAIN st.acks THEN st.acks[addr] ELSE <<>>
                  ack_serialized == bincode_serialize_ack(a[2].ack[1])
              IN  [st EXCEPT !.acks_total_bytes = @ + Len(ack_serialized),
                             !.num_acks = @ + 1,
                             !.acks = MapPut(@, addr, Append(v, ack_serialized))]
         ELSE [st EXCEPT !.panic = 145]
    ELSE [st EXCEPT !.panic = 148]

RECURSIVE FoldParts(_, _)
FoldParts(st, ps) ==
    IF ps = <<>> THEN st ELSE FoldParts(PartStep(st, Head(ps)), Tail(ps))

RECURSIVE FoldAcks(_, _)
FoldAcks(st, as) ==
    IF as = <<>> THEN st ELSE FoldAcks(AckStep(st, Head(as)), Tail(as))

\* serde_json::to_string of a BTreeMap: the entries in ascending key order.
to_json_map(m) ==
    LET ks == SortedSeq(DOMAIN m)
    IN  [i \in 1..Len(ks) |-> <<ks[i], m[ks[i]]>>]

\* Line 173: the document as text.
to_string(data) ==
    [parts |-> to_json_map(data.parts), acks |-> to_json_map(data.acks)]

\* Lines 152-171: the metrics lines, as the last line prints them.
Metrics(st) ==
    <<st.num_parts, st.num_acks, st.parts_total_bytes, st.acks_total_bytes,
      st.parts_total_bytes + st.acks_total_bytes>>

\* Lines 115-174: the whole call. A panic returns nothing and prints nothing.
key_sync_history_data(ps, as) ==
    LET st == FoldAcks(FoldParts(EncStart, ps), as)
    IN  IF st.panic # 0
        THEN [state |-> "panicked", panic_line |-> st.panic,
              data |-> [parts |-> EmptyMap, acks |-> EmptyMap],
              printed |-> None, doc |-> None]
        ELSE [state |-> "returned", panic_line |-> 0,
              data |-> [parts |-> st.parts, acks |-> st.acks],
              printed |-> Some(Metrics(st)),
              doc |-> Some(to_string([parts |-> st.parts, acks |-> st.acks]))]

EncIdle ==
    [state |-> "idle", panic_line |-> 0,
     data |-> [parts |-> EmptyMap, acks |-> EmptyMap],
     printed |-> None, doc |-> None]

\* ------------------------------------------------------- generate_keygens
\* A generator as far as this program observes it: the identity and the
\* threshold it was constructed with, and how many Parts and Acks it handled.
NewGenerator(id) ==
    [our_id |-> id, threshold |-> t, n_parts |-> 0, n_acks |-> 0]

Init ==
    /\ key_pairs \in (SUBSET Universe) \ {{}}
    /\ t \in 0..Cardinality(key_pairs)
    /\ honest \in BOOLEAN
    /\ faults = 0
    /\ pc = "round1"
    /\ panic_line = 0
    /\ sync_keygen = <<>>
    /\ parts = <<>>
    /\ inner = <<>>
    /\ acks = <<>>
    /\ ack_outcomes = <<>>
    /\ ck = 0
    /\ log = <<>>
    /\ in_parts = <<>>
    /\ in_acks = <<>>
    /\ enc = EncIdle
    /\ rnd = RndStart(0, 0)
    /\ prev = None
    /\ EnodeIdle
    /\ BloomIdle

\* Lines 43-49: unzip() consumes the whole iterator: round 1 is over when the
\* k-th of the N generators has been constructed.
Round1Done_Lazy(k) == k >= 1

Round1Done(k) == k = N

\* Lines 52-65: collect() consumes the whole flat_map: round 2 is over when
\* the last generator (gi) has handled the last Part (pj).
Round2Done_PerGenerator(gi, pj) == pj = N

Round2Done(gi, pj) == gi = N /\ pj = N

\* Lines 68-78: round 3 is over when the last generator (gi) has taken the
\* last entry (aj) of acks.
Round3Done(gi, aj) == gi = N /\ aj = Len(acks)

\* Line 60: unwrap() on the Result of handle_part panics on Err only.
HandlePartPanics_FailFast(r) == r \in {"Err", "Invalid"}

HandlePartPanics(r) == r = "Err"

\* Line 73: unwrap() on the Result of handle_ack panics on Err only.
HandleAckPanics_FailFast(r) == r \in {"Err", "Invalid"}

HandleAckPanics(r) == r = "Err"

\* Lines 57-63: the value of the closure, whatever the outcome, is collected.
Retain_AcksOnly(vec, item) ==
    IF item[2].tag = "Valid" /\ item[2].ack = None THEN vec ELSE Append(vec, item)

Retain_Prepend(vec, item) == <<item>> \o vec

Retain(vec, item) == Append(vec, item)

\* Lines 70-73: the issuer handed to handle_ack with entry a (the aj-th) of
\* acks is the first component of the entry, the our_id() of the generator
\* whose handle_part produced it (line 62).
AckIssuer_PartOrigin(a, aj) == parts[((aj - 1) % N) + 1][1]

AckIssuer(a, aj) == a[1]

\* Line 82: the pattern of the final loop.
AckOutcomeIsInvalid_Inverted(ao) == ao # "Invalid"

AckOutcomeIsInvalid_Never(ao) == FALSE

AckOutcomeIsInvalid(ao) == ao = "Invalid"

Panic(line) ==
    /\ pc' = "panicked"
    /\ panic_line' = line

\* Lines 43-49: one iteration of round 1, for the next validator in key
\* order. unwrap() panics on Err (line 46) and on a missing Part (line 47).
NewKeygen ==
    /\ pc = "round1"
    /\ LET id == Keys[Len(sync_keygen) + 1]
       IN \E r \in NewResults :
            /\ r # "Part" => MayFault
            /\ faults' = IF r = "Part" THEN faults ELSE faults + 1
            /\ log' = Append(log, [op |-> "new", g |-> id, from |-> id,
                                    arg |-> None, res |-> r])
            /\ rnd' = IF r = "Part" THEN RndAfterNew(N) ELSE rnd
            /\ CASE r = "Err" ->
                     /\ Panic(46)
                     /\ UNCHANGED <<sync_keygen, parts>>
                 [] r = "NoPart" ->
                     /\ Panic(47)
                     /\ UNCHANGED <<sync_keygen, parts>>
                 [] OTHER ->
                     /\ sync_keygen' = Append(sync_keygen, NewGenerator(id))
                     /\ parts' = Append(parts, <<id, EnginePart(id, Keys, t)>>)
                     /\ pc' = IF Round1Done(Len(sync_keygen) + 1) THEN "round2" ELSE "round1"
                     /\ UNCHANGED panic_line
    /\ UNCHANGED <<key_pairs, t, honest, inner, acks, ack_outcomes, ck,
                   in_parts, in_acks, enc, restVars>>

\* What handle_part returned inside Ok(_), as a PartOutcome.
PartOutcomeOf(r, id, idx) ==
    CASE r = "Invalid" -> Invalid
      [] r = "ValidNone" -> Valid(None)
      [] OTHER -> Valid(Some(EngineAck(id, idx, Keys)))

\* Lines 52-65: one iteration of round 2: generator s handles Part p. The
\* inner Vec of one generator is collected in full, then moved into acks.
\* unwrap() panics on Err (line 60); every Ok(outcome) is retained.
HandlePart ==
    /\ pc = "round2"
    /\ LET gi == (Len(acks) \div N) + 1
           pj == Len(inner) + 1
           s == sync_keygen[gi]
           p == parts[pj]
       IN \E r \in PartResults :
            /\ r # "ValidSome" => MayFault
            /\ faults' = IF r = "ValidSome" THEN faults ELSE faults + 1
            /\ log' = Append(log, [op |-> "handle_part", g |-> s.our_id,
                                    from |-> p[1], arg |-> Some(p[2]), res |-> r])
            /\ rnd' = IF r = "ValidSome" THEN RndAfterAck(N) ELSE rnd
            /\ IF HandlePartPanics(r)
               THEN /\ Panic(60)
                    /\ UNCHANGED <<sync_keygen, inner, acks>>
               ELSE LET item == <<s.our_id, PartOutcomeOf(r, s.our_id, pj - 1)>>
                    IN  /\ sync_keygen' = [sync_keygen EXCEPT ![gi].n_parts = @ + 1]
                        /\ IF pj = N
                           THEN /\ acks' = acks \o Retain(inner, item)
                                /\ inner' = <<>>
                           ELSE /\ inner' = Retain(inner, item)
                                /\ UNCHANGED acks
                        /\ pc' = IF Round2Done(gi, pj) THEN "round3" ELSE "round2"
                        /\ UNCHANGED panic_line
    /\ UNCHANGED <<key_pairs, t, honest, parts, ack_outcomes, ck,
                   in_parts, in_acks, enc, restVars>>

\* Lines 68-78: one iteration of round 3: generator s takes the next entry of
\* acks. An Invalid entry panics (line 74), a Valid entry without an Ack
\* panics (line 73, unwrap of None), and so does Err from handle_ack (line 73).
HandleAck ==
    /\ pc = "round3"
    /\ LET gi == (Len(ack_outcomes) \div Len(acks)) + 1
           aj == Len(inner) + 1
           s == sync_keygen[gi]
           a == acks[aj]
       IN \/ /\ a[2].tag # "Valid"
             /\ Panic(74)
             /\ UNCHANGED <<sync_keygen, inner, ack_outcomes, faults, log>>
          \/ /\ a[2].tag = "Valid"
             /\ a[2].ack = None
             /\ Panic(73)
             /\ UNCHANGED <<sync_keygen, inner, ack_outcomes, faults, log>>
          \/ /\ a[2].tag = "Valid"
             /\ a[2].ack # None
             /\ \E r \in AckResults :
                  /\ r # "Valid" => MayFault
                  /\ faults' = IF r = "Valid" THEN faults ELSE faults + 1
                  /\ log' = Append(log, [op |-> "handle_ack", g |-> s.our_id,
                                          from |-> AckIssuer(a, aj),
                                          arg |-> a[2].ack, res |-> r])
                  /\ IF HandleAckPanics(r)
                     THEN /\ Panic(73)
                          /\ UNCHANGED <<sync_keygen, inner, ack_outcomes>>
                     ELSE /\ sync_keygen' = [sync_keygen EXCEPT ![gi].n_acks = @ + 1]
                          /\ IF aj = Len(acks)
                             THEN /\ ack_outcomes' = ack_outcomes \o Append(inner, r)
                                  /\ inner' = <<>>
                             ELSE /\ inner' = Append(inner, r)
                                  /\ UNCHANGED ack_outcomes
                          /\ pc' = IF Round3Done(gi, aj) THEN "check" ELSE "round3"
                          /\ UNCHANGED panic_line
    /\ UNCHANGED <<key_pairs, t, honest, parts, acks, ck, in_parts, in_acks, enc,
                   rnd, restVars>>

\* Lines 80-87: one iteration of the loop over the ack outcomes; an Invalid
\* one panics (line 83). After the last one the function returns (line 87).
CheckAckOutcome ==
    /\ pc = "check"
    /\ IF AckOutcomeIsInvalid(ack_outcomes[ck + 1])
       THEN /\ Panic(83)
            /\ UNCHANGED ck
       ELSE /\ ck' = ck + 1
            /\ pc' = IF ck + 1 = Len(ack_outcomes) THEN "done" ELSE "check"
            /\ UNCHANGED panic_line
    /\ UNCHANGED <<key_pairs, t, honest, faults, sync_keygen, parts, inner, acks,
                   ack_outcomes, log, in_parts, in_acks, enc, rnd, restVars>>

\* The operator tool: the Parts and outcomes a run returned are handed to the
\* encoder (data flow of the tool: generator, then encoder).
CallEncoder ==
    /\ pc = "done"
    /\ in_parts' = parts
    /\ in_acks' = acks
    /\ pc' = "encode"
    /\ UNCHANGED <<genVars, panic_line, enc, restVars>>

\* Lines 115-174: key_sync_history_data on its arguments.
KeySyncHistoryData ==
    /\ pc = "encode"
    /\ enc' = key_sync_history_data(in_parts, in_acks)
    /\ pc' = IF enc'.state = "panicked" THEN "panicked" ELSE "end"
    /\ panic_line' = enc'.panic_line
    /\ UNCHANGED <<genVars, in_parts, in_acks, restVars>>

Next ==
    \/ NewKeygen
    \/ HandlePart
    \/ HandleAck
    \/ CheckAckOutcome
    \/ CallEncoder
    \/ KeySyncHistoryData

\* The tool: a run of generate_keygens, then the encoder on what it returned.
Spec == Init /\ [][Next]_vars

\* ------------------------------------------- the encoder on any arguments
SeqsUpTo(S, n) == UNION {[1..k -> S] : k \in 0..n}

\* Parts and Acks of different encoded lengths.
PartValues == {[commit |-> <<1>>, rows |-> <<1>>],
               [commit |-> <<2, 2>>, rows |-> <<2, 2>>]}
AckValues == {[idx |-> 0, values |-> <<1>>], [idx |-> 1, values |-> <<2, 2>>]}
OutcomeValues == {Invalid, Valid(None)} \cup {Valid(Some(a)) : a \in AckValues}

EncInit ==
    /\ key_pairs = {}
    /\ t = 0
    /\ honest = TRUE
    /\ faults = 0
    /\ pc = "encode"
    /\ panic_line = 0
    /\ sync_keygen = <<>>
    /\ parts = <<>>
    /\ inner = <<>>
    /\ acks = <<>>
    /\ ack_outcomes = <<>>
    /\ ck = 0
    /\ log = <<>>
    /\ in_parts \in SeqsUpTo(Universe \X PartValues, MaxLen)
    /\ in_acks \in SeqsUpTo(Universe \X OutcomeValues, MaxLen)
    /\ enc = EncIdle
    /\ rnd = RndStart(0, 0)
    /\ prev = None
    /\ EnodeIdle
    /\ BloomIdle

EncNext == KeySyncHistoryData

\* key_sync_history_data called with any lists of Parts and outcomes.
EncSpec == EncInit /\ [][EncNext]_vars

\* ------------------------------ two runs on the same arguments and seed
\* generate_keygens with an honest engine, any seed of the supplied rng and
\* any state of the system's entropy source.
RngInit ==
    /\ key_pairs \in (SUBSET Universe) \ {{}}
    /\ t \in 0..Cardinality(key_pairs)
    /\ honest = TRUE
    /\ faults = 0
    /\ pc = "round1"
    /\ panic_line = 0
    /\ sync_keygen = <<>>
    /\ parts = <<>>
    /\ inner = <<>>
    /\ acks = <<>>
    /\ ack_outcomes = <<>>
    /\ ck = 0
    /\ log = <<>>
    /\ in_parts = <<>>
    /\ in_acks = <<>>
    /\ enc = EncIdle
    /\ \E seed \in 0..MaxSeed, os \in 0..MaxEntropy : rnd = RndStart(seed, os)
    /\ prev = None
    /\ EnodeIdle
    /\ BloomIdle

\* generate_keygens is called a second time with the same validator set, the
\* same threshold and an rng seeded as the first time. The system's entropy
\* source is not an argument: it goes on from where it is.
Rerun ==
    /\ pc = "done"
    /\ prev = None
    /\ prev' = Some([parts |-> parts, acks |-> acks])
    /\ rnd' = [rnd EXCEPT !.rng = rnd.seed]
    /\ pc' = "round1"
    /\ sync_keygen' = <<>>
    /\ parts' = <<>>
    /\ inner' = <<>>
    /\ acks' = <<>>
    /\ ack_outcomes' = <<>>
    /\ ck' = 0
    /\ log' = <<>>
    /\ UNCHANGED <<key_pairs, t, honest, faults, panic_line, in_parts, in_acks, enc,
                   otherVars>>

RngNext ==
    \/ NewKeygen
    \/ HandlePart
    \/ HandleAck
    \/ CheckAckOutcome
    \/ Rerun

RngSpec == RngInit /\ [][RngNext]_vars

\* ------------------------------------------------- enodes_to_pub_keys
\* The variables of generate_keygens and of the encoder.
toolVars == <<key_pairs, t, honest, faults, pc, panic_line, sync_keygen, parts,
              inner, acks, ack_outcomes, ck, log, in_parts, in_acks, enc, rnd,
              prev>>

\* Neither generate_keygens nor the encoder is running.
ToolIdle ==
    /\ key_pairs = {}
    /\ t = 0
    /\ honest = TRUE
    /\ faults = 0
    /\ pc = "end"
    /\ panic_line = 0
    /\ sync_keygen = <<>>
    /\ parts = <<>>
    /\ inner = <<>>
    /\ acks = <<>>
    /\ ack_outcomes = <<>>
    /\ ck = 0
    /\ log = <<>>
    /\ in_parts = <<>>
    /\ in_acks = <<>>
    /\ enc = EncIdle
    /\ rnd = RndStart(0, 0)
    /\ prev = None

\* Line 100: what enodes_to_pub_keys reads of an Enode is its public and its
\* secret key; idx stands for the fields it does not read.
Enodes == [public : Universe, secret : Universe, idx : 0..1]

\* The BTreeMap<Public, Enode> arguments: any key set, any Enode under a key.
EnodeMaps == UNION {[D -> Enodes] : D \in SUBSET Universe}

\* Lines 95-105 with the entry keyed by the public key held in the Enode.
enodes_to_pub_keys_KeyByPublic(m) ==
    [p \in {m[n].public : n \in DOMAIN m} |->
        LET n == CHOOSE k \in DOMAIN m : m[k].public = p
        IN  [public |-> m[n].public, secret |-> m[n].secret]]

\* Lines 90-107: every (n, e) of the input becomes the entry
\* (n, KeyPairWrapper {public: e.public, secret: e.secret}) of the output.
enodes_to_pub_keys(m) ==
    [n \in DOMAIN m |-> [public |-> m[n].public, secret |-> m[n].secret]]

EnodeInit ==
    /\ ToolIdle
    /\ BloomIdle
    /\ enodes \in EnodeMaps
    /\ pub_keys = None

\* Lines 90-107: the call; the argument is a shared reference.
EnodesToPubKeys ==
    /\ pub_keys = None
    /\ pub_keys' = Some(enodes_to_pub_keys(enodes))
    /\ UNCHANGED <<enodes, toolVars, bloomVars>>

EnodeNext == EnodesToPubKeys

EnodeSpec == EnodeInit /\ [][EnodeNext]_vars

\* --------------------------------------------- rebuild_accounts_bloom
\* Result<T, Error>.
Ok(v) == [ok |-> TRUE, val |-> v]
Err(line, msg) == [ok |-> FALSE, val |-> [line |-> line, msg |-> msg]]

\* Lines 80-99 without the I/O errors of db.get: the state root of the header
\* of the best block, or the error of the missing entry.
load_state_root_NoHeaderCheck(d) ==
    IF d.best = None THEN Err(84, "No best block hash in the DB.")
    ELSE IF d.best[1] \notin DOMAIN d.headers THEN Ok(1)
    ELSE Ok(d.headers[d.best[1]].state_root)

load_state_root(d) ==
    IF d.best = None THEN Err(84, "No best block hash in the DB.")
    ELSE IF d.best[1] \notin DOMAIN d.headers
    THEN Err(92, "No best block header in the DB.")
    ELSE Ok(d.headers[d.best[1]].state_root)

\* Database::num_keys of the account-bloom column.
num_keys(col) == Cardinality(DOMAIN col)

\* Lines 115-127: the (k, v) pairs of the column in key order.
BackupStream(col) ==
    LET ks == SortedSeq(DOMAIN col)
    IN  [i \in 1..Len(ks) |-> <<ks[i], col[ks[i]]>>]

\* Lines 168-175: the batch deletes every key the column's iterator yields.
clear_bloom_KeepHashCount(col) == [k \in (DOMAIN col) \cap {0} |-> col[k]]

clear_bloom(col) == [k \in {} |-> 0]

\* Line 207: StateAccount::new_basic(0, 0).rlp(); an account's RLP holds its
\* nonce, its balance, its storage root and its code hash.
rlp(account) == <<account.nonce, account.balance, "SHA3_NULL_RLP", "KECCAK_EMPTY">>
new_basic(balance, nonce) == [nonce |-> nonce, balance |-> balance]
empty_account_rlp == rlp(new_basic(0, 0))

\* The values a state trie's iterator yields: Ok(account RLP), or Err for a
\* node it cannot read.
AccountDatas == {rlp(a) : a \in [nonce : 0..1, balance : 0..1]}
TrieItems == {Ok(d) : d \in AccountDatas} \cup {Err(210, "trie node")}
Tries == UNION {[D -> TrieItems] : D \in SUBSET (1..MaxAccounts)}

\* Line 210: account_trie.iter(): the items in key order.
TrieIter(trie) ==
    LET ks == SortedSeq(DOMAIN trie)
    IN  [i \in 1..Len(ks) |-> <<ks[i], trie[ks[i]]>>]

\* Lines 215-221 with every account set in the bloom.
AccountStep_SetAll(b, account_key, account_data) ==
    IF account_data # empty_account_rlp
    THEN [b EXCEPT !.non_empty_accounts = @ + 1, !.bloom = @ \cup {account_key}]
    ELSE [b EXCEPT !.empty_accounts = @ + 1, !.bloom = @ \cup {account_key}]

\* Lines 215-221: the body of the loop for one account the iterator yielded.
AccountStep(b, account_key, account_data) ==
    IF account_data # empty_account_rlp
    THEN [b EXCEPT !.non_empty_accounts = @ + 1, !.bloom = @ \cup {account_key}]
    ELSE [b EXCEPT !.empty_accounts = @ + 1]

\* Lines 227-231: StateDB::commit_bloom puts the number of hash functions
\* under the hash-count key (0 here) and one entry per part of the journal.
commit_bloom(col, bloom) ==
    [k \in (DOMAIN col) \cup {0} \cup bloom |->
        IF k = 0 THEN "k_bits" ELSE IF k \in bloom THEN "new" ELSE col[k]]

\* The databases: without a best block hash, without the header of the best
\* block, without the trie of its state root, or with any trie.
Databases ==
    LET Db(best, headers, tries) ==
            {[best |-> best, headers |-> headers, tries |-> tries, bloom |-> col] :
                col \in UNION {[D -> {"old"}] : D \in SUBSET (0..MaxOldBloom)}}
        header == MapPut(EmptyMap, 1, [state_root |-> 1])
    IN  Db(None, EmptyMap, EmptyMap)
        \cup Db(Some(1), EmptyMap, EmptyMap)
        \cup Db(Some(1), header, EmptyMap)
        \cup UNION {Db(Some(1), header, MapPut(EmptyMap, 1, tr)) : tr \in Tries}

\* Lines 52-56: the call, with or without a backup path.
BloomInit ==
    /\ ToolIdle
    /\ EnodeIdle
    /\ db \in Databases
    /\ fs = None
    /\ \E backup_path \in {None, Some("backup.bin")} :
          bl = [pc |-> "open", backup_path |-> backup_path, old_bloom |-> db.bloom,
                state_root |-> None, backup |-> "not called", cleared |-> FALSE,
                pos |-> 0, n |-> 0, empty_accounts |-> 0, non_empty_accounts |-> 0,
                bloom |-> {}, result |-> None]

\* The function returns r: `?` on an Err, or the final Ok(()).
Return(b, r) == [b EXCEPT !.pc = "returned", !.result = Some(r)]

Io(line) == Err(line, "io")

\* Line 63: Database::open.
OpenDatabase ==
    /\ bl.pc = "open"
    /\ \/ bl' = [bl EXCEPT !.pc = "load"]
       \/ bl' = Return(bl, Io(63))
    /\ UNCHANGED <<db, fs, toolVars, enodeVars>>

\* Lines 65-70: load_state_root and its `?`; then the backup if a path is
\* given, else generate_bloom.
LoadStateRoot ==
    /\ bl.pc = "load"
    /\ \/ LET r == load_state_root(db)
          IN  bl' = IF r.ok
                    THEN [bl EXCEPT !.state_root = Some(r.val),
                                    !.pc = IF bl.backup_path # None THEN "backup"
                                           ELSE "clear"]
                    ELSE Return(bl, r)
       \/ \E line \in {81, 88} :
             /\ line = 88 => db.best # None
             /\ bl' = Return(bl, Io(line))
    /\ UNCHANGED <<db, fs, toolVars, enodeVars>>

\* Line 73 with the error of backup_bloom dropped.
BackupFailed_Ignored(b, r) == [b EXCEPT !.backup = "Err", !.pc = "clear"]

\* Line 73: the `?` on the result of backup_bloom.
BackupFailed(b, r) == Return([b EXCEPT !.backup = "Err"], r)

\* Lines 106-110: nothing is backed up when num_keys / 2 is zero.
BackupSkipped(keys) == keys \div 2 = 0

\* Lines 70-74, 102-133: backup_bloom. File::create leaves an empty file;
\* write may write any prefix of the stream and still return Ok.
BackupBloom ==
    /\ bl.pc = "backup"
    /\ \/ /\ bl' = BackupFailed(bl, Io(106))
          /\ UNCHANGED fs
       \/ /\ BackupSkipped(num_keys(db.bloom))
          /\ bl' = [bl EXCEPT !.backup = "Ok", !.pc = "clear"]
          /\ UNCHANGED fs
       \/ /\ ~BackupSkipped(num_keys(db.bloom))
          /\ \/ /\ bl' = BackupFailed(bl, Err(113, "Cannot write to file at path"))
                /\ UNCHANGED fs
             \/ /\ bl' = BackupFailed(bl, Io(130))
                /\ fs' = Some(<<>>)
             \/ \E written \in 0..Len(BackupStream(db.bloom)) :
                   /\ fs' = Some(SubSeq(BackupStream(db.bloom), 1, written))
                   /\ bl' = [bl EXCEPT !.backup = "Ok", !.pc = "clear"]
    /\ UNCHANGED <<db, toolVars, enodeVars>>

\* Lines 184, 164-179: clear_bloom. The batch is written as a whole or not
\* at all; flush may fail after the write.
ClearBloom ==
    /\ bl.pc = "clear"
    /\ \/ /\ \E line \in {165, 175} : bl' = Return(bl, Io(line))
          /\ UNCHANGED db
       \/ /\ db' = [db EXCEPT !.bloom = clear_bloom(@)]
          /\ \/ bl' = Return(bl, Io(176))
             \/ bl' = [bl EXCEPT !.cleared = TRUE, !.pc = "trie"]
    /\ UNCHANGED <<fs, toolVars, enodeVars>>

\* Lines 192-210: the counters, the empty bloom, TrieDB::new and iter() with
\* their `?`.
OpenTrie ==
    /\ bl.pc = "trie"
    /\ \/ /\ bl.state_root[1] \notin DOMAIN db.tries
          /\ bl' = Return(bl, Err(205, "InvalidStateRoot"))
       \/ /\ bl.state_root[1] \in DOMAIN db.tries
          /\ \/ bl' = Return(bl, Io(210))
             \/ bl' = [bl EXCEPT !.pc =
                          IF TrieIter(db.tries[bl.state_root[1]]) = <<>>
                          THEN "commit" ELSE "iterate"]
    /\ UNCHANGED <<db, fs, toolVars, enodeVars>>

\* Lines 210-222: the iterator's next item; filter_map(Result::ok) drops an
\* Err, enumerate() numbers the items that are left.
Iterate ==
    /\ bl.pc = "iterate"
    /\ LET items == TrieIter(db.tries[bl.state_root[1]])
           item == items[bl.pos + 1]
           b == IF item[2].ok
                THEN [AccountStep(bl, item[1], item[2].val) EXCEPT !.n = @ + 1]
                ELSE bl
       IN  bl' = [b EXCEPT !.pos = @ + 1,
                           !.pc = IF bl.pos + 1 = Len(items) THEN "commit"
                                  ELSE "iterate"]
    /\ UNCHANGED <<db, fs, toolVars, enodeVars>>

\* Lines 227-235: the journal of the bloom is put into a batch, written and
\* flushed; the batch is written as a whole or not at all.
CommitBloom ==
    /\ bl.pc = "commit"
    /\ \/ /\ \E line \in {231, 232} : bl' = Return(bl, Io(line))
          /\ UNCHANGED db
       \/ /\ db' = [db EXCEPT !.bloom = commit_bloom(@, bl.bloom)]
          /\ \/ bl' = Return(bl, Io(233))
             \/ bl' = Return(bl, Ok(0))
    /\ UNCHANGED <<fs, toolVars, enodeVars>>

BloomNext ==
    \/ OpenDatabase
    \/ LoadStateRoot
    \/ BackupBloom
    \/ ClearBloom
    \/ OpenTrie
    \/ Iterate
    \/ CommitBloom

BloomSpec == BloomInit /\ [][BloomNext]_vars

\* ================================================================= claims
\* Positions of the log entries of one kind.
Calls(op) == {k \in 1..Len(log) : log[k].op = op}
\* generate_keygens has returned (and the tool may have gone on).
Returned == pc \in {"done", "encode", "end"}
\* The outcomes round 2 has collected so far, in order.
Retained == IF Len(acks) < N * N THEN acks \o inner ELSE acks
\* The ack outcomes round 3 has collected so far, in order.
RetainedAckOutcomes ==
    IF Len(acks) = N * N /\ Len(ack_outcomes) < N * N * N
    THEN ack_outcomes \o inner ELSE ack_outcomes

\* Every step of the program increases this measure, so no run loops.
PcRank ==
    CASE pc = "done" -> 1
      [] pc = "encode" -> 2
      [] pc = "end" -> 3
      [] pc = "panicked" -> 4
      [] OTHER -> 0
Measure == Len(log) + ck + PcRank
InGenerateKeygens == pc \in {"round1", "round2", "round3", "check"}

\* C1: with an honest engine, generate_keygens on a validator set of size
\* n >= 1 and any threshold terminates normally: it never panics, it always
\* has a next step until it returns, every step makes progress, and at its
\* return it holds exactly n Parts, the i-th from the i-th validator in key
\* order, no Invalid PartOutcome among the n*n returned outcomes and no
\* Invalid AckOutcome among the n*n*n of round 3.
C1_HonestRunCompletes ==
    /\ [](honest =>
            /\ pc # "panicked"
            /\ InGenerateKeygens => ENABLED Next
            /\ pc = "done" =>
                  /\ Len(sync_keygen) = N
                  /\ Len(parts) = N
                  /\ \A i \in 1..N : parts[i][1] = Keys[i]
                  /\ Len(acks) = N * N
                  /\ \A i \in 1..Len(acks) : acks[i][2].tag # "Invalid"
                  /\ Len(ack_outcomes) = N * N * N
                  /\ \A i \in 1..Len(ack_outcomes) : ack_outcomes[i] # "Invalid")
    /\ [][honest => Measure' > Measure]_vars

C1_Witness ==
    /\ honest
    /\ pc = "done"
    /\ N >= 2
    /\ t < N
    /\ Len(parts) = N
    /\ Len(acks) = N * N

\* C2: once a handle_part or handle_ack call has returned an Invalid outcome,
\* generate_keygens has not returned and never returns, and the encoder
\* produces no document for the run.
C2_InvalidNeverReturns ==
    (\E k \in Calls("handle_part") \cup Calls("handle_ack") : log[k].res = "Invalid")
        => /\ ~Returned
           /\ enc.state # "returned"
           /\ enc.doc = None

C2_Witness ==
    /\ pc = "panicked"
    /\ \E k \in Calls("handle_ack") : log[k].res = "Invalid"
    /\ \A k \in Calls("handle_part") : log[k].res = "ValidSome"

\* C3: every handle_part call is made after all n generators have been
\* constructed and all n Parts collected: the first n calls are the n
\* successful constructions.
C3_PartsBeforeHandlePart ==
    \A k \in Calls("handle_part") :
        /\ Len(sync_keygen) = N
        /\ Len(parts) = N
        /\ k > N
        /\ \A m \in 1..N : log[m].op = "new" /\ log[m].res = "Part"

C3_Witness ==
    /\ N >= 2
    /\ Calls("handle_part") # {}

\* C4: every handle_ack call is made after all n*n handle_part calls have
\* returned and their outcomes have been collected into acks.
C4_AcksBeforeHandleAck ==
    \A k \in Calls("handle_ack") :
        /\ Len(acks) = N * N
        /\ k > N + N * N
        /\ \A m \in (N + 1)..(N + N * N) :
              log[m].op = "handle_part" /\ log[m].res # "Err"

C4_Witness ==
    /\ N >= 2
    /\ Calls("handle_ack") # {}

\* Positions of the collected outcomes that are Invalid.
InvalidRetained == {i \in 1..Len(Retained) : Retained[i][2].tag = "Invalid"}
\* Positions of the collected outcomes that are not Valid with an Ack.
Unusable == {i \in 1..Len(Retained) : Retained[i][2].ack = None}
\* The run panicked inside round 3 (lines 73, 74).
PanickedInRound3 == pc = "panicked" /\ panic_line \in {73, 74}

\* C5 as stated: an Invalid PartOutcome ends the run at once, so it is the
\* last engine call of the run.
C5_Original ==
    \A k \in Calls("handle_part") :
        log[k].res = "Invalid" => k = Len(log) /\ pc = "panicked"

\* C5 as amended: an Invalid PartOutcome does not end round 2. It is retained
\* in the outcome list under the generator's identity and round 2 goes on
\* (line 60 panics on Err only); the run fails in round 3, where the first
\* generator panics on the first retained outcome that is not Valid with an
\* Ack (line 74 for the Invalid one), before any generator completes round 3.
\* generate_keygens never returns.
C5_InvalidPartFailsInRound3 ==
    /\ \A k \in Calls("handle_part") :
          log[k].res = "Invalid" =>
              /\ k - N \in InvalidRetained
              /\ Retained[k - N][1] = log[k].g
    /\ pc = "panicked" /\ panic_line = 60 => log[Len(log)].res = "Err"
    /\ InvalidRetained # {} =>
          /\ pc \in {"round2", "round3", "panicked"}
          /\ ack_outcomes = <<>>
          /\ pc = "round3" => Len(inner) < Min(Unusable)
          /\ PanickedInRound3 /\ Len(inner) = Min(InvalidRetained) - 1
                => panic_line = 74

C5_Witness ==
    /\ PanickedInRound3
    /\ panic_line = 74
    /\ N >= 2
    /\ Min(InvalidRetained) < N * N
    /\ Len(inner) >= 1

\* C6 as stated: an Invalid AckOutcome ends the run at once, so it is the
\* last engine call of the run.
C6_Original ==
    \A k \in Calls("handle_ack") :
        log[k].res = "Invalid" => k = Len(log) /\ pc = "panicked"

\* C6 as amended: an Invalid AckOutcome does not end round 3. It is collected
\* and round 3 goes on (line 73 panics on Err and on a missing Ack only); the
\* run fails in the final loop over the collected outcomes (line 83), at the
\* first Invalid one. generate_keygens never returns.
C6_InvalidAckFailsInFinalLoop ==
    LET bad == {i \in 1..Len(RetainedAckOutcomes) :
                    RetainedAckOutcomes[i] = "Invalid"}
        badCalls == {k \in Calls("handle_ack") : log[k].res = "Invalid"}
    IN  /\ Cardinality(bad) = Cardinality(badCalls)
        /\ PanickedInRound3 =>
              \/ log[Len(log)].op = "handle_ack" /\ log[Len(log)].res = "Err"
              \/ acks[Len(inner) + 1][2].ack = None
        /\ bad # {} =>
              /\ pc \in {"round3", "check", "panicked"}
              /\ pc = "check" => ck < Min(bad)
              /\ pc = "panicked" /\ panic_line = 83 => ck = Min(bad) - 1
        /\ pc = "panicked" /\ panic_line = 83 => bad # {}

C6_Witness ==
    /\ pc = "panicked"
    /\ panic_line = 83
    /\ N >= 2
    /\ \E k \in Calls("handle_ack") : log[k].res = "Invalid" /\ k < Len(log)

\* C7 as stated: only (identity, Ack) pairs are retained, and a run whose only
\* deviation from Valid-with-Ack outcomes is Valid-without-Ack does not fail.
C7_Original ==
    /\ \A i \in 1..Len(Retained) :
          Retained[i][2].tag = "Valid" => Retained[i][2].ack # None
    /\ (\A k \in 1..Len(log) : log[k].res \in {"Part", "ValidSome", "ValidNone", "Valid"})
          => pc # "panicked"

\* C7 as amended: every Ok outcome of handle_part is retained under the
\* generator's identity, a Valid one with its Ack and a Valid one without an
\* Ack as it is, and round 2 goes on. A retained Valid-without-Ack outcome
\* makes the run fail in round 3 (line 73, unwrap of None, at the first
\* generator), so generate_keygens returns only if every outcome is Valid
\* with an Ack. Round 3 passes to handle_ack only Acks of retained outcomes,
\* each with the identity it was retained under.
C7_ValidWithoutAckIsRetainedAndFatal ==
    /\ \A k \in Calls("handle_part") :
          log[k].res # "Err" =>
              /\ k - N \in 1..Len(Retained)
              /\ Retained[k - N][1] = log[k].g
              /\ Retained[k - N][2].tag = (IF log[k].res = "Invalid" THEN "Invalid" ELSE "Valid")
              /\ (Retained[k - N][2].ack # None) <=> (log[k].res = "ValidSome")
    /\ Unusable # {} =>
          /\ pc \in {"round2", "round3", "panicked"}
          /\ ack_outcomes = <<>>
          /\ PanickedInRound3 /\ Len(inner) = Min(Unusable) - 1
                => panic_line = (IF Min(Unusable) \in InvalidRetained THEN 74 ELSE 73)
    /\ \A k \in Calls("handle_ack") :
          \E i \in 1..Len(acks) :
              acks[i][1] = log[k].from /\ acks[i][2].ack = log[k].arg

C7_Witness ==
    /\ PanickedInRound3
    /\ panic_line = 73
    /\ N >= 2
    /\ InvalidRetained = {}
    /\ Unusable # {}
    /\ Len(inner) = Min(Unusable) - 1
    /\ Len(inner) >= 1
    /\ \A k \in 1..Len(log) : log[k].res # "Err"

\* ------------------------------------------------- claims on the encoder
\* key_sync_history_data has been called and has returned or panicked.
EncCalled == enc.state # "idle"
EncReturned == enc.state = "returned"
Addresses(list) == {public_to_address(list[i][1]) : i \in 1..Len(list)}
\* The rearrangements of a list.
Perms(list) ==
    {[i \in 1..Len(list) |-> list[f[i]]] :
        f \in {g \in [1..Len(list) -> 1..Len(list)] :
                    \A i, j \in 1..Len(list) : g[i] = g[j] => i = j}}
RECURSIVE SumOver(_, _)
\* The sum of f[x] over the keys x in S.
SumOver(f, S) ==
    IF S = {} THEN 0
    ELSE LET x == CHOOSE y \in S : TRUE IN f[x] + SumOver(f, S \ {x})
\* An outcome the encoder accepts: Valid with an Ack.
Usable(o) == o.tag = "Valid" /\ o.ack # None

\* C8 as stated (read in its favour: the identities of a map are those of the
\* list it is built from): the keys of parts and the keys of acks are the
\* addresses of the input identities, and every rearrangement of the two
\* input lists gives the same output.
C8_Original ==
    EncReturned =>
        /\ DOMAIN enc.data.parts = Addresses(in_parts)
        /\ DOMAIN enc.data.acks = Addresses(in_acks)
        /\ \A pp \in Perms(in_parts), pa \in Perms(in_acks) :
              key_sync_history_data(pp, pa) = enc

\* C8 as amended: the keys of parts are exactly the addresses of the
\* identities in the Parts list and the keys of acks exactly those of the
\* identities in the outcomes list, and every rearrangement of the two input
\* lists is accepted too and gives the same two key sets (the document itself
\* depends on the order: a later Part replaces an earlier one of the same
\* identity, and the Acks of an identity keep the input order).
C8_KeysAreInputAddresses ==
    EncReturned =>
        /\ DOMAIN enc.data.parts = Addresses(in_parts)
        /\ DOMAIN enc.data.acks = Addresses(in_acks)
        /\ {e[1] : e \in {enc.doc[1].parts[i] : i \in 1..Len(enc.doc[1].parts)}}
              = Addresses(in_parts)
        /\ {e[1] : e \in {enc.doc[1].acks[i] : i \in 1..Len(enc.doc[1].acks)}}
              = Addresses(in_acks)
        /\ \A pp \in Perms(in_parts), pa \in Perms(in_acks) :
              LET other == key_sync_history_data(pp, pa)
              IN  /\ other.state = "returned"
                  /\ DOMAIN other.data.parts = DOMAIN enc.data.parts
                  /\ DOMAIN other.data.acks = DOMAIN enc.data.acks

C8_Witness ==
    /\ EncReturned
    /\ Len(in_parts) = 2
    /\ Len(in_acks) = 2
    /\ Cardinality(DOMAIN enc.data.parts) = 2
    /\ Cardinality(DOMAIN enc.data.acks) = 1
    /\ in_acks[1] # in_acks[2]

\* C9 as stated: the reported Parts total and count are the sum of lengths
\* and the number of the entries of the parts map, the reported Acks total
\* and count those of the byte strings in the acks map, and the grand total
\* is their sum, for every input.
C9_Original ==
    EncReturned =>
        LET m == enc.printed[1]
            pl == [a \in DOMAIN enc.data.parts |-> Len(enc.data.parts[a])]
            al == [a \in DOMAIN enc.data.acks |-> SumLen(enc.data.acks[a])]
            an == [a \in DOMAIN enc.data.acks |-> Len(enc.data.acks[a])]
        IN  /\ m[3] = SumOver(pl, DOMAIN pl)
            /\ m[1] = Cardinality(DOMAIN pl)
            /\ m[4] = SumOver(al, DOMAIN al)
            /\ m[2] = SumOver(an, DOMAIN an)
            /\ m[5] = m[3] + m[4]

\* C9 as amended: the reported Parts total and count are the sum of the
\* encoded lengths and the number of the Parts supplied (every insertion is
\* counted); they are those of the entries of the parts map when no two
\* supplied Parts share an identity, and larger when two do (the later Part
\* replaces the earlier one in the map). The Acks total and count are those
\* of the byte strings in the acks map, and the grand total is the sum.
C9_ByteAccounting ==
    EncReturned =>
        LET m == enc.printed[1]
            pl == [a \in DOMAIN enc.data.parts |-> Len(enc.data.parts[a])]
            al == [a \in DOMAIN enc.data.acks |-> SumLen(enc.data.acks[a])]
            an == [a \in DOMAIN enc.data.acks |-> Len(enc.data.acks[a])]
            supplied == [i \in 1..Len(in_parts) |-> bincode_serialize_part(in_parts[i][2])]
            distinct == Cardinality(Addresses(in_parts)) = Len(in_parts)
        IN  /\ m[3] = SumLen(supplied)
            /\ m[1] = Len(in_parts)
            /\ distinct => m[3] = SumOver(pl, DOMAIN pl) /\ m[1] = Cardinality(DOMAIN pl)
            /\ ~distinct => m[3] > SumOver(pl, DOMAIN pl) /\ m[1] > Cardinality(DOMAIN pl)
            /\ m[4] = SumOver(al, DOMAIN al)
            /\ m[2] = SumOver(an, DOMAIN an)
            /\ m[2] = Len(in_acks)
            /\ m[5] = m[3] + m[4]

C9_Witness ==
    /\ EncReturned
    /\ Len(in_parts) = 2
    /\ in_parts[1][1] = in_parts[2][1]
    /\ in_parts[1][2] # in_parts[2][2]
    /\ Len(in_acks) = 2
    /\ enc.printed[1][1] = 2
    /\ Cardinality(DOMAIN enc.data.parts) = 1

\* C10: when some supplied outcome is Invalid, or Valid without an Ack,
\* whatever its position, key_sync_history_data panics: it returns no
\* document and prints nothing. It returns a document only when every
\* supplied outcome is Valid with an Ack.
C10_EncoderFatalOnUnusableOutcome ==
    EncCalled =>
        /\ (\E i \in 1..Len(in_acks) : ~Usable(in_acks[i][2])) =>
              /\ enc.state = "panicked"
              /\ pc = "panicked"
              /\ enc.doc = None
              /\ enc.printed = None
              /\ panic_line \in {145, 148}
        /\ enc.doc # None => \A i \in 1..Len(in_acks) : Usable(in_acks[i][2])

C10_Witness ==
    /\ enc.state = "panicked"
    /\ Len(in_acks) = 2
    /\ Len(in_parts) >= 1
    /\ Usable(in_acks[1][2])
    /\ in_acks[2][2] = Valid(None)

C12_Original ==
    prev # None /\ pc = "done" =>
        /\ rnd.rng - rnd.seed = N
        /\ parts = prev[1].parts
        /\ acks = prev[1].acks
        /\ rnd.os_draws = 0

\* The number of log entries of one kind.
NumCalls(op) == Cardinality(Calls(op))
\* The tag of the PartOutcome behind a result of handle_part.
TagOf(r) == IF r = "Invalid" THEN "Invalid" ELSE "Valid"

\* C13: round 2 calls handle_part once per (Generator, Part) pair, Generators
\* in key order and, within a Generator, Parts in the order they were
\* produced: the k-th call is on Generator (k-1) div n with Part (k-1) mod n.
\* The outcome list pairs, at position i*n+j, the identity of Generator i with
\* its outcome for Part j, it has length n*n once round 2 is over, and no
\* (validator, Part) pair has two entries.
C13_Round2CallsAndOutcomeOrder ==
    LET hp == NumCalls("handle_part")
    IN  /\ hp <= N * N
        /\ Calls("handle_part") = (N + 1)..(N + hp)
        /\ \A k \in 1..hp :
              LET e == log[N + k]
                  i == (k - 1) \div N
                  j == (k - 1) % N
              IN  /\ e.g = Keys[i + 1]
                  /\ e.from = parts[j + 1][1]
                  /\ e.arg = Some(parts[j + 1][2])
        /\ Len(Retained) <= hp
        /\ \A k \in 1..Len(Retained) :
              /\ Retained[k][1] = Keys[((k - 1) \div N) + 1]
              /\ Retained[k][2].tag = TagOf(log[N + k].res)
              /\ (log[N + k].res = "ValidSome") = (Retained[k][2].ack # None)
              /\ Retained[k][2].ack # None =>
                     Retained[k][2].ack[1].idx = (k - 1) % N
        /\ \A k1, k2 \in 1..Len(Retained) :
              k1 # k2 => <<Retained[k1][1], (k1 - 1) % N>> # <<Retained[k2][1], (k2 - 1) % N>>
        /\ pc \in {"round3", "check", "done", "encode", "end"} =>
              hp = N * N /\ Len(acks) = N * N

C13_Witness == pc = "done" /\ N = 2 /\ NumCalls("handle_part") = 4 /\ Len(acks) = 4

\* C14: round 3 calls handle_ack on every Generator in key order, for every
\* collected Ack in collection order: the k-th call is on Generator
\* (k-1) div n*n with entry (k-1) mod n*n of the outcome list. The issuer
\* passed is the identity of the Generator whose handle_part produced the
\* Ack. A run that completes has made all n*n*n calls.
C14_Round3CallsAndIssuer ==
    LET ha == NumCalls("handle_ack")
    IN  /\ ha <= N * N * N
        /\ Calls("handle_ack") = (N + N * N + 1)..(N + N * N + ha)
        /\ \A k \in 1..ha :
              LET e == log[N + N * N + k]
                  i == (k - 1) \div (N * N)
                  j == (k - 1) % (N * N)
              IN  /\ e.g = Keys[i + 1]
                  /\ e.arg = acks[j + 1][2].ack
                  /\ e.arg # None
                  /\ e.from = acks[j + 1][1]
                  /\ e.from = log[N + j + 1].g
                  /\ log[N + j + 1].op = "handle_part"
        /\ Returned => ha = N * N * N

\* A completed run on two validators: the second Ack was produced by the
\* first Generator for the Part of the second, so issuer and origin differ.
C14_Witness ==
    /\ pc = "done"
    /\ N = 2
    /\ NumCalls("handle_ack") = 8
    /\ log[N + N * N + 2].from = Keys[1]
    /\ parts[2][1] = Keys[2]

\* The outcomes of a list issued by validator v, in the order of the list.
IssuedBy(list, v) == SelectSeq(list, LAMBDA a : a[1] = v)
\* The encodings of the Acks of a list of usable outcomes, in order.
EncodedAcks(list) == [i \in 1..Len(list) |-> bincode_serialize_ack(list[i][2].ack[1])]

\* C15: when key_sync_history_data returns, the sequence stored under the
\* address of a validator v in the acks map is the subsequence of the input
\* outcomes issued by v, each Ack encoded, in the order of the input; a
\* validator that issued nothing has no entry, and the map has no other key.
C15_AcksGroupedInInputOrder ==
    EncReturned =>
        /\ \A v \in Universe :
              IF IssuedBy(in_acks, v) = <<>>
              THEN public_to_address(v) \notin DOMAIN enc.data.acks
              ELSE /\ public_to_address(v) \in DOMAIN enc.data.acks
                   /\ enc.data.acks[public_to_address(v)] = EncodedAcks(IssuedBy(in_acks, v))
        /\ DOMAIN enc.data.acks \subseteq {public_to_address(v) : v \in Universe}

\* Two different Acks of one issuer, encoded in input order.
C15_Witness ==
    /\ EncReturned
    /\ Len(in_acks) = 2
    /\ in_acks[1][1] = in_acks[2][1]
    /\ in_acks[1][2] # in_acks[2][2]
    /\ Len(enc.data.acks[public_to_address(in_acks[1][1])]) = 2

\* C16: the map enodes_to_pub_keys returns has the keys of the input map,
\* under every key the public and the secret key of the Enode the input holds
\* under that key, and the call leaves the input map as it was.
C16_PubKeysMirrorEnodes ==
    /\ [](pub_keys # None =>
            /\ DOMAIN pub_keys[1] = DOMAIN enodes
            /\ \A n \in DOMAIN enodes :
                  /\ pub_keys[1][n].public = enodes[n].public
                  /\ pub_keys[1][n].secret = enodes[n].secret)
    /\ [][enodes' = enodes]_vars

\* Two Enodes, one of them stored under a key that is not its public key.
C16_Witness ==
    /\ pub_keys # None
    /\ Cardinality(DOMAIN enodes) = 2
    /\ \E n \in DOMAIN enodes : enodes[n].public # n
    /\ \E n \in DOMAIN enodes : enodes[n].secret # enodes[n].public

\* rebuild_accounts_bloom has been called.
BloomCalled == bl.pc # "idle"
\* rebuild_accounts_bloom has returned an error.
BloomFailed == BloomCalled /\ bl.pc = "returned" /\ ~bl.result[1].ok
\* The line of the `?` or return that made rebuild_accounts_bloom fail.
FailedAt == bl.result[1].val.line
\* The database has no best block hash, or no header for it.
NoStateRoot == db.best = None \/ db.best[1] \notin DOMAIN db.headers

\* C17: nothing is touched before the state root is known, and with no best
\* block hash or no header for it the call has returned an error once it is
\* past load_state_root: the error is the one of the missing entry (or an I/O
\* error met before), the bloom column is as it was, no backup file exists,
\* and neither backup_bloom nor clear_bloom was called.
C17_NoStateRootNothingTouched ==
    BloomCalled =>
        /\ bl.state_root = None =>
              /\ db.bloom = bl.old_bloom
              /\ fs = None
              /\ bl.backup = "not called"
              /\ ~bl.cleared
        /\ NoStateRoot /\ bl.pc \notin {"open", "load"} =>
              /\ BloomFailed
              /\ FailedAt \in {63, 81, 84, 88, 92}
              /\ FailedAt = 84 => db.best = None
              /\ FailedAt = 92 => db.best # None
              /\ bl.state_root = None

\* A best block hash without header, a bloom column with entries, a backup
\* path: the call has failed on the missing header.
C17_Witness ==
    /\ BloomFailed
    /\ FailedAt = 92
    /\ bl.backup_path # None
    /\ num_keys(bl.old_bloom) = 2

C19_Original ==
    BloomCalled =>
        /\ bl.pc \in {"trie", "iterate", "commit"} =>
              bl.cleared /\ num_keys(db.bloom) = 0
        /\ BloomFailed /\ bl.cleared => num_keys(db.bloom) = 0

\* C19: the new bloom is computed on a cleared column. When a step after
\* clear_bloom fails, up to and including the write of the new bloom, the
\* call returns an error with the bloom column empty; when only the final
\* flush fails (line 233), the error is returned with the new bloom written.
\* In both cases no old entry is left.
C19_ClearedBeforeRebuild ==
    BloomCalled =>
        /\ bl.pc \in {"trie", "iterate", "commit"} =>
              bl.cleared /\ num_keys(db.bloom) = 0
        /\ (bl.pos > 0 \/ bl.bloom # {}) => bl.cleared
        /\ BloomFailed /\ bl.cleared =>
              /\ FailedAt \in {205, 210, 231, 232, 233}
              /\ FailedAt # 233 => num_keys(db.bloom) = 0
              /\ FailedAt = 233 => db.bloom = commit_bloom(EmptyMap, bl.bloom)
              /\ \A k \in DOMAIN db.bloom : db.bloom[k] # "old"

\* The old column had entries, the trie of the state root is missing.
C19_Witness ==
    /\ BloomFailed
    /\ bl.cleared
    /\ FailedAt = 205
    /\ num_keys(bl.old_bloom) = 2
    /\ num_keys(db.bloom) = 0

\* The accounts the loop of generate_bloom has gone through so far.
Iterated ==
    IF bl.state_root # None /\ bl.state_root[1] \in DOMAIN db.tries
    THEN LET items == TrieIter(db.tries[bl.state_root[1]])
         IN  {items[i] : i \in {j \in 1..bl.pos : items[j][2].ok}}
    ELSE {}

\* C20: at every point of the loop, the keys set in the new bloom are those
\* of the iterated accounts whose data is not the RLP of the basic empty
\* account; the empty counter counts the iterated accounts with that RLP,
\* the non-empty counter the others, and the two sum to the number of
\* accounts iterated so far.
C20_BloomAndCounters ==
    BloomCalled =>
        /\ bl.bloom = {it[1] : it \in {x \in Iterated : x[2].val # empty_account_rlp}}
        /\ bl.empty_accounts =
              Cardinality({x \in Iterated : x[2].val = empty_account_rlp})
        /\ bl.non_empty_accounts =
              Cardinality({x \in Iterated : x[2].val # empty_account_rlp})
        /\ bl.empty_accounts + bl.non_empty_accounts = bl.n
        /\ bl.n = Cardinality(Iterated)
        /\ \A x \in Iterated : x[2].val = rlp(new_basic(0, 0)) <=> x[1] \notin bl.bloom

\* The loop is over two accounts, one empty and one not.
C20_Witness ==
    /\ BloomCalled
    /\ bl.pc = "commit"
    /\ bl.pos = 2
    /\ bl.empty_accounts = 1
    /\ bl.non_empty_accounts = 1
    /\ Cardinality(bl.bloom) = 1

====
